---- MODULE Spec2Model ----
(***************************************************************************)
(* Model of dvnc_chainlit.py: the FineTunedSLM domain expert, the          *)
(* DVNCSystem orchestrator (keyword extraction, insight generation, design *)
(* synthesis), the ChatHistory buffer and the Chainlit handlers.           *)
(*                                                                         *)
(* A Python str is a sequence of pieces.  A piece is a one-character       *)
(* string, or a literal chunk of template text (more than one character,   *)
(* holding no '*' and no newline) that no operation looks inside.  Prompts,*)
(* domain names, concept names and keywords are made of characters only.   *)
(* Non-ASCII glyphs of the templates (emoji, dashes) are written as ASCII  *)
(* chunks.                                                                 *)
(***************************************************************************)
EXTENDS Integers, Sequences, FiniteSets, TLC

VARIABLES
  rng,        \* state of the process-wide generator of module random
  clock,      \* logical value of datetime.now()
  session,    \* cl.user_session of every chat session
  task,       \* the running handler coroutines
  core,       \* a DVNCSystem driven directly through its methods
  slm,        \* a FineTunedSLM driven directly, in two runs of the process
  hist        \* a ChatHistory driven directly, with the records added to it

vars == <<rng, clock, session, task, core, slm, hist>>

---------------------------------------------------------------------------
(* str operations *)

UpperChars == <<"A","B","C","D","E","F","G","H","I","J","K","L","M","N","O","P","Q","R","S","T","U","V","W","X","Y","Z">>

LowerChars == <<"a","b","c","d","e","f","g","h","i","j","k","l","m","n","o","p","q","r","s","t","u","v","w","x","y","z">>

\* the characters of the model in code point order
CharOrder == <<"\t","\n"," ","*","-">> \o UpperChars \o LowerChars

Whitespace == {" ", "\n", "\t"}

IsUpper(c) == \E i \in 1..Len(UpperChars) : UpperChars[i] = c

IsLower(c) == \E i \in 1..Len(LowerChars) : LowerChars[i] = c

IsAlpha(c) == IsUpper(c) \/ IsLower(c)

LowerChar(c) ==
  IF IsUpper(c) THEN LowerChars[CHOOSE i \in 1..Len(UpperChars) : UpperChars[i] = c]
  ELSE c

UpperChar(c) ==
  IF IsLower(c) THEN UpperChars[CHOOSE i \in 1..Len(LowerChars) : LowerChars[i] = c]
  ELSE c

\* ord(c); a template chunk sorts after every character (none is ever compared)
Ord(c) ==
  IF \E i \in 1..Len(CharOrder) : CharOrder[i] = c
  THEN CHOOSE i \in 1..Len(CharOrder) : CharOrder[i] = c
  ELSE Len(CharOrder) + 1

\* str.lower()
lower(s) == [i \in 1..Len(s) |-> LowerChar(s[i])]

\* str.title(): a letter is upper-cased after a non-letter, lower-cased after a letter
title(s) ==
  [i \in 1..Len(s) |->
     IF i > 1 /\ IsAlpha(s[i - 1]) THEN LowerChar(s[i]) ELSE UpperChar(s[i])]

\* str.replace(old, new) for one-character old and new
replace(s, old, new) == [i \in 1..Len(s) |-> IF s[i] = old THEN new ELSE s[i]]

\* a < b on str: lexicographic on code points
StrLess(a, b) ==
  \E k \in 1..(Len(b)) :
    /\ \A i \in 1..(k - 1) : i <= Len(a) /\ a[i] = b[i]
    /\ \/ Len(a) = k - 1
       \/ Len(a) >= k /\ Ord(a[k]) < Ord(b[k])

\* p in s
IsSubstr(p, s) ==
  \E i \in 0..(Len(s) - Len(p)) : SubSeq(s, i + 1, i + Len(p)) = p

\* str.strip()
RECURSIVE lstrip(_)
lstrip(s) == IF s # <<>> /\ Head(s) \in Whitespace THEN lstrip(Tail(s)) ELSE s

RECURSIVE rstrip(_)
rstrip(s) ==
  IF s # <<>> /\ s[Len(s)] \in Whitespace THEN rstrip(SubSeq(s, 1, Len(s) - 1)) ELSE s

strip(s) == rstrip(lstrip(s))

\* str.split(): the maximal runs of non-whitespace, in order
RECURSIVE split(_)
split(s) ==
  LET t == lstrip(s)
      n == IF \E i \in 1..Len(t) : t[i] \in Whitespace
           THEN (CHOOSE i \in 1..Len(t) :
                   t[i] \in Whitespace /\ \A j \in 1..(i - 1) : t[j] \notin Whitespace) - 1
           ELSE Len(t)
  IN IF t = <<>> THEN <<>>
     ELSE <<SubSeq(t, 1, n)>> \o split(SubSeq(t, n + 1, Len(t)))

\* sep.join(items)
RECURSIVE join(_, _)
join(sep, items) ==
  IF items = <<>> THEN <<>>
  ELSE IF Len(items) = 1 THEN items[1]
  ELSE items[1] \o sep \o join(sep, Tail(items))

\* str.split('\n'): the pieces between newlines, empty strings included
RECURSIVE split_nl(_)
split_nl(s) ==
  IF \E i \in 1..Len(s) : s[i] = "\n"
  THEN LET n == CHOOSE i \in 1..Len(s) : s[i] = "\n" /\ \A j \in 1..(i - 1) : s[j] # "\n"
       IN <<SubSeq(s, 1, n - 1)>> \o split_nl(SubSeq(s, n + 1, Len(s)))
  ELSE <<s>>

\* sorted(set(items)) for a set of str
RECURSIVE sorted(_)
sorted(S) ==
  IF S = {} THEN <<>>
  ELSE LET m == CHOOSE x \in S : \A y \in S \ {x} : StrLess(x, y)
       IN <<m>> \o sorted(S \ {m})

Range(s) == {s[i] : i \in 1..Len(s)}

\* dict operations on a sequence of <<key, value>> pairs kept in insertion order
keys(d) == [i \in 1..Len(d) |-> d[i][1]]

values(d) == [i \in 1..Len(d) |-> d[i][2]]

HasKey(d, k) == \E i \in 1..Len(d) : d[i][1] = k

get(d, k) == d[CHOOSE i \in 1..Len(d) : d[i][1] = k][2]

\* d[k] = v: an existing key keeps its place
setitem(d, k, v) ==
  IF HasKey(d, k) THEN [i \in 1..Len(d) |-> IF d[i][1] = k THEN <<k, v>> ELSE d[i]]
  ELSE Append(d, <<k, v>>)

---------------------------------------------------------------------------
(* module random: one generator per process.  Its state is a residue; every *)
(* draw advances it by a fixed permutation-like step and reads the result.  *)

RngMod == 11

\* the mutant of random_seed that mixes the seed into the state it finds
random_seed_mixing(r, seed) == (r + seed) % RngMod

\* random.seed(seed) on a generator in state r: the new state is a function of
\* the seed alone
random_seed(r, seed) == seed % RngMod

rng_step(r) == (5 * r + 3) % RngMod

\* random.randrange(n) for n > 0: <<value, new state>>
randbelow(r, n) == <<rng_step(r) % n, rng_step(r)>>

\* random.randint(a, b)
randint(r, a, b) == <<a + randbelow(r, b - a + 1)[1], randbelow(r, b - a + 1)[2]>>

---------------------------------------------------------------------------
(* FineTunedSLM.  temperature is held in tenths (0.6 is 6). *)

DefaultTemperature == 6

ExploreThreshold == 7

\* the dataclass constructor: no field is validated
FineTunedSLM(domain, knowledge, temperature) ==
  [domain |-> domain, knowledge |-> knowledge, temperature |-> temperature]

\* random.choice(seq): [val, rng, err]; an empty seq raises IndexError
random_choice(r, seq) ==
  IF seq = <<>> THEN [val |-> <<>>, rng |-> r, err |-> TRUE]
  ELSE [val |-> seq[randbelow(r, Len(seq))[1] + 1],
        rng |-> randbelow(r, Len(seq))[2], err |-> FALSE]

\* the comparison of _choose that selects exploration
Explores(m, items) == m.temperature >= ExploreThreshold /\ Len(items) > 1

\* FineTunedSLM._choose(items): [val, rng, err]
_choose(m, items, r) ==
  IF items = <<>> THEN random_choice(r, keys(m.knowledge))
  ELSE IF Explores(m, items) THEN random_choice(r, items)
  ELSE [val |-> items[1], rng |-> r, err |-> FALSE]

\* the loop of generate_insight over the knowledge keys: the first key that
\* equals chosen_kw or contains it, ignoring case; <<>> stands for None
match_key(m, chosen_kw) ==
  LET ks == keys(m.knowledge)
      hit(k) == lower(chosen_kw) = lower(k) \/ IsSubstr(lower(chosen_kw), lower(k))
  IN IF \E i \in 1..Len(ks) : hit(ks[i])
     THEN ks[CHOOSE i \in 1..Len(ks) : hit(ks[i]) /\ \A j \in 1..(i - 1) : ~hit(ks[j])]
     ELSE <<>>

exploratory_text(concept, study) ==
  <<"Consider ","*","*">> \o concept \o <<"*","*",", informed by da Vinci's work on ","*">> \o <<study>>
    \o <<"*",". Translate this into constraints and a measurable performance target.">>

directive_text(concept, study) ==
  <<"Leverage ","*","*">> \o concept \o <<"*","*"," (cf. da Vinci's ","*">> \o <<study>>
    \o <<"*","). Define 2-3 constraints, an objective, and a quick benchtop test.">>

\* the mutant of fallback_choose that calls _choose([])
fallback_choose_empty(m, r) == _choose(m, <<>>, r)

\* the fallback of generate_insight when no key matched the chosen keyword
fallback_choose(m, r) == _choose(m, keys(m.knowledge), r)

\* FineTunedSLM.generate_insight(prompt_keywords, user_prompt): [text, rng, err]
generate_insight(m, prompt_keywords, r) ==
  IF prompt_keywords = <<>>
  THEN LET c == _choose(m, <<>>, r)
       IN IF c.err THEN [text |-> <<>>, rng |-> c.rng, err |-> TRUE]
          ELSE [text |-> exploratory_text(c.val, get(m.knowledge, c.val)),
                rng |-> c.rng, err |-> FALSE]
  ELSE LET c1 == _choose(m, prompt_keywords, r)
           k  == match_key(m, c1.val)
           c2 == IF k = <<>> THEN fallback_choose(m, c1.rng)
                 ELSE [val |-> k, rng |-> c1.rng, err |-> FALSE]
       IN IF c1.err \/ c2.err \/ ~HasKey(m.knowledge, c2.val)
          THEN [text |-> <<>>, rng |-> c2.rng, err |-> TRUE]
          ELSE [text |-> directive_text(c2.val, get(m.knowledge, c2.val)),
                rng |-> c2.rng, err |-> FALSE]

---------------------------------------------------------------------------
(* DVNCSystem *)

physics_knowledge ==
  << <<<<"F","l","u","i","d"," ","D","y","n","a","m","i","c","s">>, "water screws and canal studies">>,
     <<<<"A","e","r","o","d","y","n","a","m","i","c","s">>, "ornithopter sketches and airflow notes">>,
     <<<<"L","e","v","e","r"," ","M","e","c","h","a","n","i","c","s">>, "gear trains, pulleys, cranes">>,
     <<<<"S","t","r","u","c","t","u","r","a","l"," ","I","n","t","e","g","r","i","t","y">>, "bridges and fortification stress studies">>,
     <<<<"F","r","a","c","t","a","l"," ","G","e","o","m","e","t","r","y">>, "tree branching and river delta patterns">>,
     <<<<"W","a","v","e"," ","P","r","o","p","a","g","a","t","i","o","n">>, "sound and light behavior studies">> >>

biomech_knowledge ==
  << <<<<"J","o","i","n","t"," ","A","r","t","i","c","u","l","a","t","i","o","n">>, "elbow/shoulder motion notebooks">>,
     <<<<"M","u","s","c","u","l","a","r"," ","F","o","r","c","e">>, "layered muscle drawings">>,
     <<<<"B","i","o","l","o","g","i","c","a","l"," ","L","e","v","e","r","s">>, "limb lever ratios and gait notes">>,
     <<<<"S","k","e","l","e","t","a","l"," ","S","t","r","u","c","t","u","r","e">>, "Vitruvian proportions and load paths">>,
     <<<<"K","i","n","e","m","a","t","i","c"," ","C","h","a","i","n","s">>, "sequential movement studies">>,
     <<<<"E","n","e","r","g","y"," ","T","r","a","n","s","f","e","r">>, "force distribution in living systems">> >>

anatomy_knowledge ==
  << <<<<"H","u","m","a","n"," ","P","r","o","p","o","r","t","i","o","n","a","l","i","t","y">>, "Vitruvian Man proportional canon">>,
     <<<<"M","u","s","c","u","l","a","r"," ","S","y","s","t","e","m","s">>, "detailed musculature sheets">>,
     <<<<"C","i","r","c","u","l","a","t","o","r","y"," ","S","y","s","t","e","m">>, "venous and arterial mapping">>,
     <<<<"B","o","d","y"," ","M","e","c","h","a","n","i","c","s">>, "posture, stance, and motion sequences">>,
     <<<<"N","e","u","r","a","l"," ","P","a","t","h","w","a","y","s">>, "brain and nerve studies">>,
     <<<<"S","e","n","s","o","r","y"," ","I","n","t","e","g","r","a","t","i","o","n">>, "eye and ear mechanism drawings">> >>

Physics == <<"P","h","y","s","i","c","s">>

Biomechanics == <<"B","i","o","m","e","c","h","a","n","i","c","s">>

Anatomy == <<"A","n","a","t","o","m","y">>

\* the key and the domain under which the included expert is stored
included_key(include_domain) ==
  IF lower(strip(include_domain)) = lower(Anatomy) THEN Anatomy ELSE strip(include_domain)

\* self.models[key] = expert
register(models, key, expert) == setitem(models, key, expert)

\* self.models after DVNCSystem.__init__(include_domain, seed), a dict in insertion order
DVNCSystem_models(include_domain) ==
  register(
    << <<Physics, FineTunedSLM(Physics, physics_knowledge, DefaultTemperature)>>,
       <<Biomechanics, FineTunedSLM(Biomechanics, biomech_knowledge, DefaultTemperature)>> >>,
    included_key(include_domain),
    FineTunedSLM(included_key(include_domain), anatomy_knowledge, DefaultTemperature))

\* DVNCSystem.__init__: seeds the process-wide generator and builds the experts
DVNCSystem_init(include_domain, seed, r) ==
  [models |-> DVNCSystem_models(include_domain), rng |-> random_seed(r, seed)]

\* the tokens of a concept name
concept_parts(concept) == split(replace(lower(concept), "-", " "))

\* the mutant of concept_matches that tests the prompt inside the token
concept_matches_reversed(concept, prompt_low) ==
  LET parts == concept_parts(concept)
  IN \E i \in 1..Len(parts) : IsSubstr(prompt_low, parts[i])

\* any(p in prompt_low for p in parts)
concept_matches(concept, prompt_low) ==
  LET parts == concept_parts(concept)
  IN \E i \in 1..Len(parts) : IsSubstr(parts[i], prompt_low)

\* the mutant of keyword_list that keeps the order of the knowledge base
keyword_list_unsorted(kws) == kws

\* result[domain] = sorted(set(kws))
keyword_list(kws) == sorted(Range(kws))

\* DVNCSystem.extract_keywords(prompt): a dict domain -> list
extract_keywords(models, prompt) ==
  LET prompt_low == lower(prompt)
  IN [i \in 1..Len(models) |->
        <<models[i][1],
          keyword_list(SelectSeq(keys(models[i][2].knowledge),
                                 LAMBDA c : concept_matches(c, prompt_low)))>>]

\* DVNCSystem.generate_insights(prompt, keywords): [insights, rng, err]
RECURSIVE generate_insights_from(_, _, _, _, _)
generate_insights_from(models, i, keywords, insights, r) ==
  IF i > Len(models) THEN [insights |-> insights, rng |-> r, err |-> FALSE]
  ELSE LET kws == IF HasKey(keywords, models[i][1]) THEN get(keywords, models[i][1]) ELSE <<>>
           g == generate_insight(models[i][2], kws, r)
       IN IF g.err THEN [insights |-> insights, rng |-> g.rng, err |-> TRUE]
          ELSE generate_insights_from(models, i + 1, keywords,
                                      setitem(insights, models[i][1], g.text), g.rng)

generate_insights(models, keywords, r) == generate_insights_from(models, 1, keywords, <<>>, r)

\* re.findall(r"\*\*(.+?)\*\*", txt): is there a match opening at i and closing at j
BoldAt(txt, i, j) ==
  /\ i >= 1 /\ j >= i + 3 /\ j + 1 <= Len(txt)
  /\ txt[i] = "*" /\ txt[i + 1] = "*" /\ txt[j] = "*" /\ txt[j + 1] = "*"
  /\ \A k \in (i + 2)..(j - 1) : txt[k] # "\n"
  /\ \A k \in (i + 3)..(j - 1) : ~(txt[k] = "*" /\ txt[k + 1] = "*")

HasBold(txt) == \E i, j \in 1..Len(txt) : BoldAt(txt, i, j)

\* bolds[0]: the leftmost match
FirstBold(txt) ==
  LET i == CHOOSE a \in 1..Len(txt) :
             /\ \E j \in 1..Len(txt) : BoldAt(txt, a, j)
             /\ \A b \in 1..(a - 1) : ~\E j \in 1..Len(txt) : BoldAt(txt, b, j)
      j == CHOOSE b \in 1..Len(txt) : BoldAt(txt, i, b)
  IN SubSeq(txt, i + 2, j - 1)

\* the mutant of driver_order that walks the insights by ascending domain name
driver_order_sorted(insights) ==
  LET ks == sorted(Range(keys(insights)))
  IN [i \in 1..Len(ks) |-> <<ks[i], get(insights, ks[i])>>]

\* the order in which _choose_drivers walks the insights: insights.values()
driver_order(insights) == insights

\* DVNCSystem._choose_drivers(insights)
_choose_drivers(insights) ==
  LET txts == values(driver_order(insights))
      bold == SelectSeq(txts, HasBold)
      drivers == IF bold = <<>> THEN keys(insights)
                 ELSE [i \in 1..Len(bold) |-> FirstBold(bold[i])]
  IN SubSeq(drivers, 1, IF Len(drivers) < 3 THEN Len(drivers) ELSE 3)

\* DVNCSystem._propose_concept_name(drivers): [val, err]; d.split()[-1] raises
\* IndexError for a driver without a word
_propose_concept_name(drivers) ==
  IF \E i \in 1..Len(drivers) : split(drivers[i]) = <<>>
  THEN [val |-> <<>>, err |-> TRUE]
  ELSE [val |-> <<"Project ">> \o
                title(join(<<"-">>,
                           [i \in 1..Len(drivers) |-> split(drivers[i])[Len(split(drivers[i]))]])),
        err |-> FALSE]

\* DVNCSystem._get_domain_icon(domain)
_get_domain_icon(domain) ==
  IF domain = Physics THEN "[atom]"
  ELSE IF domain = Biomechanics THEN "[arm]"
  ELSE IF domain = Anatomy THEN "[heart]"
  ELSE "[microscope]"

NL == <<"\n">>

header_section(prompt, now) ==
  join(NL, << <<"# [palette] DVNC.ai - Innovation Report">>,
              <<"*","Conceptual Product Prototype","*">>,
              <<>>,
              <<"*","*","Timestamp:","*","*"," ">> \o <<ToString(now)>>,
              <<"*","*","Challenge:","*","*"," ">> \o prompt,
              <<>> >>)

\* the two lines of one domain in the insights section
RECURSIVE insight_lines(_, _)
insight_lines(insights, domains) ==
  IF domains = <<>> THEN <<>>
  ELSE << <<"### ", _get_domain_icon(domains[1]), " ">> \o domains[1],
          get(insights, domains[1]) \o NL >>
       \o insight_lines(insights, Tail(domains))

\* for domain in sorted(insights.keys())
section_domains(insights) == sorted(Range(keys(insights)))

insights_section(insights) ==
  join(NL, << <<"## [microscope] Multidisciplinary Insights","\n">> >>
           \o insight_lines(insights, section_domains(insights)))

synthesis_section(concept_name, drivers) ==
  join(NL, << <<"## [rocket] Concept Synthesis">>,
              <<"### ","*","*">> \o concept_name \o <<"*","*">>,
              <<>>,
              <<"*","*","Primary Innovation Drivers:","*","*"," [code]">> \o join(<<" x ">>, drivers) \o <<"[code]">>,
              <<>> >>)

architecture_section ==
  join(NL, << <<"### [triangle] System Architecture">>,
              <<>>,
              <<"#### Structural Framework">>,
              <<"- ","*","*","Core Structure:","*","*"," Lightweight skeletal frame with modular joints">>,
              <<"- ","*","*","Material Strategy:","*","*"," High stiffness-to-weight ratio composites">>,
              <<"- ","*","*","Modularity:","*","*"," Interchangeable components for rapid iteration">>,
              <<>>,
              <<"#### Actuation System">>,
              <<"- ","*","*","Primary Motion:","*","*"," Bio-inspired mechanism with optimized lever ratios">>,
              <<"- ","*","*","Control Logic:","*","*"," Constraint-first controller (stability -> efficiency -> elegance)">>,
              <<"- ","*","*","Power Distribution:","*","*"," Distributed energy management system">>,
              <<>> >>)

validation_section ==
  join(NL, << <<"### [tube] Validation Framework">>,
              <<>>,
              <<"#### Performance Metrics">>,
              <<"| Domain | Key Performance Indicator | Target | Test Method |">>,
              <<"|--------|--------------------------|--------|-------------|">>,
              <<"| ","*","*","Physics","*","*"," | Lift/drag ratio | >3.5 | Wind tunnel testing |">>,
              <<"| ","*","*","Physics","*","*"," | Structural deflection | <5mm @ rated load | Static load test |">>,
              <<"| ","*","*","Biomechanics","*","*"," | Joint torque efficiency | >85% | Dynamometer analysis |">>,
              <<"| ","*","*","Biomechanics","*","*"," | Fatigue resistance | >10,000 cycles | Cyclic loading |">>,
              <<"| ","*","*","Anatomy","*","*"," | Ergonomic compliance | >90% user satisfaction | User studies |">>,
              <<"| ","*","*","Anatomy","*","*"," | Proportional accuracy | +-2% of target | 3D scanning |">>,
              <<>> >>)

roadmap_closing ==
  <<"*","Powered by Leonardo da Vinci's timeless principles of observation and innovation","*">>

roadmap_section ==
  join(NL, << <<"### [map] Implementation Roadmap">>,
              <<>>,
              <<"#### Phase 1: Proof of Concept (Weeks 1-4)">>,
              <<"- [ ] Convert constraints to parametric CAD model">>,
              <<"- [ ] Develop initial control algorithms">>,
              <<"- [ ] Create simulation environment">>,
              <<>>,
              <<"#### Phase 2: Prototype Development (Weeks 5-8)">>,
              <<"- [ ] Build physical breadboard prototype">>,
              <<"- [ ] Implement sensor feedback systems">>,
              <<"- [ ] Conduct initial performance tests">>,
              <<>>,
              <<"#### Phase 3: Iteration & Optimization (Weeks 9-12)">>,
              <<"- [ ] A/B testing with design variants">>,
              <<"- [ ] Machine learning optimization of control parameters">>,
              <<"- [ ] User testing and feedback integration">>,
              <<>>,
              <<"---">>,
              roadmap_closing >>)

\* sections.append(...) in the order of the method body
assemble(header, insights, synthesis, architecture, validation, roadmap) ==
  <<header, insights, synthesis, architecture, validation, roadmap>>

\* DVNCSystem.synthesize_design(prompt, insights): [sections, err]
synthesize_design(prompt, insights, now) ==
  LET drivers == _choose_drivers(insights)
      name == _propose_concept_name(drivers)
  IN IF name.err THEN [sections |-> <<>>, err |-> TRUE]
     ELSE [sections |-> assemble(header_section(prompt, now),
                                 insights_section(insights),
                                 synthesis_section(name.val, drivers),
                                 architecture_section,
                                 validation_section,
                                 roadmap_section),
           err |-> FALSE]

---------------------------------------------------------------------------
(* A DVNCSystem driven through its public methods: the constructor, then    *)
(* extract_keywords, generate_insights and synthesize_design on one prompt, *)
(* or synthesize_design on insights the caller supplies.                    *)

MaxWords == 2

MaxGiven == 4

PromptWords == {<<"a","e","r","o","d","y","n","a","m","i","c","s">>, <<"J","o","i","n","t">>, <<"l","e","v","e","r">>, <<"s">>, <<" ">>, <<"s","y","s","t","e","m">>}

RECURSIVE PromptsOf(_)
PromptsOf(n) ==
  IF n = 0 THEN {<<>>}
  ELSE PromptsOf(n - 1) \cup {p \o w : p \in PromptsOf(n - 1), w \in PromptWords}

Prompts == PromptsOf(MaxWords)

DomainNames == {<<"A","n","a","t","o","m","y">>, <<" ","A","N","A","T","O","M","Y"," ">>, <<"O","p","t","i","c","s">>, <<"o","p","t","i","c","s">>, <<"P","h","y","s","i","c","s">>}

Seeds == {42, 7}

SampleTexts ==
  {<<"p","l","a","i","n"," ","t","e","x","t">>, <<"u","s","e"," ","*","*","A","l","p","h","a"," ","O","n","e","*","*"," ","n","o","w">>, <<"*","*","B","e","t","a","*","*"," ","a","n","d"," ","*","*","G","a","m","m","a","*","*">>, <<"*","*","Z","e","d"," ","T","w","o","*","*">>}

\* the keys of the supplied insights, in insertion order
GivenDomains == <<<<"D","e","l","t","a">>, <<"C","h","a","r","l","i","e">>, <<"B","r","a","v","o">>, <<"A","l","p","h","a">>, <<"e","c","h","o">>>>

GivenInsights ==
  UNION {{[i \in 1..n |-> <<GivenDomains[i], f[i]>>] : f \in [1..n -> SampleTexts]} :
         n \in 0..(IF MaxGiven < Len(GivenDomains) THEN MaxGiven ELSE Len(GivenDomains))}

IdleCore ==
  [pc |-> "idle", external |-> FALSE, include_domain |-> <<>>, seed |-> 0, prompt |-> <<>>,
   models |-> <<>>, keywords |-> <<>>, insights |-> <<>>, sections |-> <<>>, err |-> FALSE]

CoreConstruct ==
  /\ core.pc = "new"
  /\ LET s == DVNCSystem_init(core.include_domain, core.seed, rng)
     IN /\ core' = [core EXCEPT !.pc = "built", !.models = s.models]
        /\ rng' = s.rng
  /\ UNCHANGED <<clock, session, task, slm, hist>>

CoreExtract ==
  /\ core.pc = "built" /\ ~core.external
  /\ core' = [core EXCEPT !.pc = "extracted",
                          !.keywords = extract_keywords(core.models, core.prompt)]
  /\ UNCHANGED <<rng, clock, session, task, slm, hist>>

CoreInsights ==
  /\ core.pc = "extracted"
  /\ LET g == generate_insights(core.models, core.keywords, rng)
     IN /\ core' = [core EXCEPT !.pc = IF g.err THEN "raised" ELSE "insights",
                                !.insights = g.insights, !.err = g.err]
        /\ rng' = g.rng
  /\ UNCHANGED <<clock, session, task, slm, hist>>

CoreSynthesize ==
  /\ \/ core.pc = "insights"
     \/ core.pc = "built" /\ core.external
  /\ LET d == synthesize_design(core.prompt, core.insights, clock)
     IN core' = [core EXCEPT !.pc = IF d.err THEN "raised" ELSE "done",
                             !.sections = d.sections, !.err = d.err]
  /\ UNCHANGED <<rng, clock, session, task, slm, hist>>

---------------------------------------------------------------------------
(* A FineTunedSLM driven through its methods in two runs of the process.    *)
(* Each run has its own generator, in an arbitrary state when the run       *)
(* starts; both runs construct a DVNCSystem with the same seed, build the   *)
(* same expert and make the same calls.  unseeded holds the states the two  *)
(* generators start in; seeding overwrites them.                            *)

MaxCalls == 2

Temperatures == {DefaultTemperature, ExploreThreshold}

single_knowledge == << <<<<"G","o","l","d","e","n"," ","R","a","t","i","o">>, "proportion studies">> >>

KnowledgeBases == {physics_knowledge, single_knowledge, <<>>}

Keywords == {<<"A","e","r","o","d","y","n","a","m","i","c","s">>, <<"l","e","v","e","r">>, <<"Q","u","a","n","t","u","m">>}

\* the candidate lists of a call: at most two distinct keywords
KeywordLists ==
  {<<>>} \cup {<<k>> : k \in Keywords}
         \cup {p \in Keywords \X Keywords : p[1] # p[2]}

Runs == {1, 2}

IdleSlm == [pc |-> "idle"]

\* one call of a run, as the caller sees it, with the generator state around it
CallRecord(call, items, before, result) ==
  [call |-> call, items |-> items, before |-> before, after |-> result.rng,
   val |-> IF call = "_choose" THEN result.val ELSE result.text, err |-> result.err]

SlmConstruct ==
  /\ slm.pc = "new"
  /\ slm' = [slm EXCEPT
       !.pc = "ready",
       !.unseeded = <<>>,
       !.expert = FineTunedSLM(<<"E","x","p","e","r","t">>, slm.knowledge, slm.temperature),
       !.rng = [n \in Runs |-> DVNCSystem_init(Anatomy, slm.seed, slm.unseeded[n]).rng]]
  /\ UNCHANGED <<rng, clock, session, task, core, hist>>

SlmChoose(items) ==
  /\ slm.pc = "ready" /\ Len(slm.out[1]) < MaxCalls
  /\ LET res == [n \in Runs |-> _choose(slm.expert, items, slm.rng[n])]
     IN slm' = [slm EXCEPT
          !.rng = [n \in Runs |-> res[n].rng],
          !.out = [n \in Runs |->
                     Append(slm.out[n], CallRecord("_choose", items, slm.rng[n], res[n]))]]
  /\ UNCHANGED <<rng, clock, session, task, core, hist>>

SlmGenerateInsight(prompt_keywords) ==
  /\ slm.pc = "ready" /\ Len(slm.out[1]) < MaxCalls
  /\ LET res == [n \in Runs |-> generate_insight(slm.expert, prompt_keywords, slm.rng[n])]
     IN slm' = [slm EXCEPT
          !.rng = [n \in Runs |-> res[n].rng],
          !.out = [n \in Runs |->
                     Append(slm.out[n],
                            CallRecord("generate_insight", prompt_keywords, slm.rng[n], res[n]))]]
  /\ UNCHANGED <<rng, clock, session, task, core, hist>>

---------------------------------------------------------------------------
(* ChatHistory.  datetime.now() is the logical clock; it advances with every *)
(* record written, so the records of a history are told apart by timestamp.  *)

max_history == 50

MaxAdds == 53

\* ChatHistory.__init__: self.history
ChatHistory_init == <<>>

\* the mutant of keep_last that keeps the oldest records: self.history[:n]
keep_first(history, n) == IF Len(history) > n THEN SubSeq(history, 1, n) ELSE history

\* self.history[-n:] for n > 0
keep_last(history, n) ==
  IF Len(history) > n THEN SubSeq(history, Len(history) - n + 1, Len(history)) ELSE history

\* ChatHistory.add_interaction(user_input, assistant_response)
add_interaction(history, user_input, assistant_response, now) ==
  LET appended == Append(history, [timestamp |-> now, user |-> user_input,
                                   assistant |-> assistant_response])
  IN IF Len(appended) > max_history THEN keep_last(appended, max_history) ELSE appended

\* ChatHistory.clear()
clear(history) == <<>>

\* ChatHistory.get_recent(n)
get_recent(history, n) == IF history # <<>> THEN keep_last(history, n) ELSE <<>>

(* A ChatHistory driven through its methods; added holds every record written *)
(* since the last clear, last the method called last.                         *)

IdleHist == [pc |-> "idle"]

HistAdd(user_input, assistant_response) ==
  /\ hist.pc = "ready" /\ clock < MaxAdds
  /\ hist' = [hist EXCEPT
       !.history = add_interaction(hist.history, user_input, assistant_response, clock),
       !.added = Append(hist.added, [timestamp |-> clock, user |-> user_input,
                                     assistant |-> assistant_response]),
       !.last = "add_interaction"]
  /\ clock' = clock + 1
  /\ UNCHANGED <<rng, session, task, core, slm>>

HistClear ==
  /\ hist.pc = "ready"
  /\ hist' = [hist EXCEPT !.history = clear(hist.history), !.added = <<>>, !.last = "clear"]
  /\ UNCHANGED <<rng, clock, session, task, core, slm>>

---------------------------------------------------------------------------
(* The Chainlit application.  Every chat session has its own user_session;  *)
(* the generator of module random is shared by all of them.  A handler is a *)
(* coroutine: the code between two awaits is one step.  Consecutive steps   *)
(* that only write the handler's own response message (the processing       *)
(* frames, the words of an insight, the lines of one report section) are    *)
(* taken together.                                                          *)

MaxTasks == 2

Sessions == {"s1", "s2"}

AppPrompts == {<<>>, <<"J","o","i","n","t"," ","l","e","v","e","r","s">>}

ClosedSession == [pc |-> "closed", models |-> <<>>, history |-> <<>>]

NoTask ==
  [kind |-> "main", pc |-> "main", sid |-> "s1", prompt |-> <<>>, seed |-> 0, keywords |-> <<>>,
   insights |-> <<>>, sections |-> <<>>, next |-> 0, content |-> <<>>]

\* one line of the keyword analysis of main
keyword_line(domain, kws) ==
  <<"*", "*", _get_domain_icon(domain), " ">> \o domain \o <<":","*","*"," ">>
    \o (IF kws # <<>> THEN <<"[code]">> \o join(<<" . ">>, kws) \o <<"[code]", "\n">>
        ELSE <<"*","No specific concepts detected","*","\n">>)

RECURSIVE keyword_lines(_)
keyword_lines(keywords) ==
  IF keywords = <<>> THEN <<>>
  ELSE keyword_line(keywords[1][1], keywords[1][2]) \o keyword_lines(Tail(keywords))

\* response_msg.content when stage 2 of main has streamed the keywords
domain_analysis(keywords) ==
  <<"### [pin] Domain Analysis","\n","\n">> \o keyword_lines(keywords)
    \o <<"\n","---","\n">> \o <<"### [bulb] Generating Domain Insights","\n","\n">>

\* what stage 3 of main appends for the insights, by ascending domain; the
\* words of an insight are appended each followed by one space
RECURSIVE insight_stream(_, _)
insight_stream(insights, domains) ==
  IF domains = <<>> THEN <<>>
  ELSE <<"*", "*", _get_domain_icon(domains[1]), " ">> \o domains[1] \o <<" Analysis:","*","*","\n">>
       \o get(insights, domains[1]) \o <<" ", "\n", "\n">>
       \o insight_stream(insights, Tail(domains))

domain_insights(insights) ==
  insight_stream(insights, sorted(Range(keys(insights)))) \o <<"---","\n">> \o <<"\n">>

\* for line in section.split('\n'): response_msg.content += line + "\n"
RECURSIVE append_lines(_, _)
append_lines(content, lines) ==
  IF lines = <<>> THEN content
  ELSE append_lines(content \o lines[1] \o NL, Tail(lines))

\* the mutant of section_at that walks design_sections backwards
section_at_reversed(sections, i) == sections[Len(sections) + 1 - i]

\* the section the loop of main streams after i sections: design_sections in order
section_at(sections, i) == sections[i]

stream_section(content, sections, i) == append_lines(content, split_nl(section_at(sections, i)))

\* on_chat_start up to its first await
OnChatStart(s) ==
  /\ session[s].pc = "closed"
  /\ session' = [session EXCEPT ![s].pc = "welcome"]
  /\ UNCHANGED <<rng, clock, task, core, slm, hist>>

\* on_chat_start after the welcome message: the DVNCSystem and the ChatHistory
\* of the session are created and stored
StartInitialize(s) ==
  /\ session[s].pc = "welcome"
  /\ LET sys == DVNCSystem_init(Anatomy, 42, rng)
     IN /\ session' = [session EXCEPT ![s] = [pc |-> "ready", models |-> sys.models,
                                              history |-> ChatHistory_init]]
        /\ rng' = sys.rng
  /\ UNCHANGED <<clock, task, core, slm, hist>>

\* on_message: main up to its first await
OnMessage(s, prompt) ==
  /\ session[s].pc # "closed"
  /\ Len(task) < MaxTasks
  /\ task' = Append(task, [NoTask EXCEPT
                             !.sid = s, !.prompt = prompt,
                             !.pc = IF session[s].pc = "ready" THEN "extract" ELSE "refused"])
  /\ UNCHANGED <<rng, clock, session, core, slm, hist>>

\* main: the processing frames, extract_keywords and the keyword analysis
MainExtract(t) ==
  /\ task[t].pc = "extract"
  /\ LET keywords == extract_keywords(session[task[t].sid].models, task[t].prompt)
     IN task' = [task EXCEPT ![t].pc = "insights", ![t].keywords = keywords,
                             ![t].content = domain_analysis(keywords)]
  /\ UNCHANGED <<rng, clock, session, core, slm, hist>>

\* main: generate_insights and the streaming of the insights
MainInsights(t) ==
  /\ task[t].pc = "insights"
  /\ LET g == generate_insights(session[task[t].sid].models, task[t].keywords, rng)
     IN /\ task' = [task EXCEPT
                      ![t].pc = IF g.err THEN "raised" ELSE "synthesize",
                      ![t].insights = g.insights,
                      ![t].content = IF g.err THEN @ ELSE @ \o domain_insights(g.insights)]
        /\ rng' = g.rng
  /\ UNCHANGED <<clock, session, core, slm, hist>>

\* main: synthesize_design
MainSynthesize(t) ==
  /\ task[t].pc = "synthesize"
  /\ LET d == synthesize_design(task[t].prompt, task[t].insights, clock)
     IN task' = [task EXCEPT ![t].pc = IF d.err THEN "raised" ELSE "stream",
                             ![t].sections = d.sections, ![t].next = 1]
  /\ UNCHANGED <<rng, clock, session, core, slm, hist>>

\* main: the lines of the next section are appended to the response
MainStream(t) ==
  /\ task[t].pc = "stream"
  /\ task[t].next <= Len(task[t].sections)
  /\ task' = [task EXCEPT
                ![t].content = stream_section(@, task[t].sections, task[t].next),
                ![t].next = @ + 1]
  /\ UNCHANGED <<rng, clock, session, core, slm, hist>>

\* main: the response is archived in the history of the session and the
\* coroutine ends; of its locals the model keeps the prompt, which the
\* regenerate button of the response carries
MainSave(t) ==
  /\ task[t].pc = "stream"
  /\ task[t].next > Len(task[t].sections)
  /\ task' = [task EXCEPT ![t] = [NoTask EXCEPT !.kind = task[t].kind, !.pc = "done",
                                                !.sid = task[t].sid, !.prompt = task[t].prompt,
                                                !.seed = task[t].seed]]
  /\ session' = [session EXCEPT ![task[t].sid].history =
                   add_interaction(@, task[t].prompt, task[t].content, clock)]
  /\ clock' = clock + 1
  /\ UNCHANGED <<rng, core, slm, hist>>

\* the prompts whose response carries the regenerate button in session s
Regenerable(s) ==
  {task[t].prompt : t \in {u \in 1..Len(task) : task[u].sid = s /\ task[u].pc = "done"}}

\* the mutant of reinitialize that rebuilds the experts and leaves the generator
reinitialize_unseeded(r) ==
  [models |-> DVNCSystem_models(Anatomy), rng |-> randint(r, 1, 1000)[2]]

\* dvnc_system.__init__(include_domain="Anatomy", seed=random.randint(1, 1000))
reinitialize(r) == DVNCSystem_init(Anatomy, randint(r, 1, 1000)[1], randint(r, 1, 1000)[2])

\* on_regenerate up to its first await: the DVNCSystem of the session is
\* initialised again with a seed drawn from the shared generator
OnRegenerate(s, prompt) ==
  /\ prompt \in Regenerable(s)
  /\ Len(task) < MaxTasks
  /\ session' = [session EXCEPT ![s].models = reinitialize(rng).models]
  /\ rng' = reinitialize(rng).rng
  /\ task' = Append(task, [NoTask EXCEPT !.kind = "regenerate", !.sid = s, !.prompt = prompt,
                                         !.seed = randint(rng, 1, 1000)[1], !.pc = "main"])
  /\ UNCHANGED <<clock, core, slm, hist>>

\* on_regenerate: main(mock_message) up to its first await
RegenerateMain(t) ==
  /\ task[t].pc = "main"
  /\ task' = [task EXCEPT
                ![t].pc = IF session[task[t].sid].pc = "ready" THEN "extract" ELSE "refused"]
  /\ UNCHANGED <<rng, clock, session, core, slm, hist>>

\* on_clear_history
OnClearHistory(s) ==
  /\ session[s].pc = "ready"
  /\ session[s].history # <<>>
  /\ session' = [session EXCEPT ![s].history = clear(@)]
  /\ UNCHANGED <<rng, clock, task, core, slm, hist>>

---------------------------------------------------------------------------
(* claims about the DVNCSystem methods, checked under SpecCore *)

Delimiters == Whitespace \cup {"-"}

\* the end of the run without whitespace and hyphens that starts at s[a]
TokenEnd(s, a) ==
  CHOOSE b \in a..Len(s) :
    /\ \A k \in a..b : s[k] \notin Delimiters
    /\ b = Len(s) \/ s[b + 1] \in Delimiters

\* does a token start at s[a]
TokenStart(s, a) == s[a] \notin Delimiters /\ (a = 1 \/ s[a - 1] \in Delimiters)

HasTokenIn(concept, text) ==
  LET lc == lower(concept)
  IN \E a \in 1..Len(lc) :
       TokenStart(lc, a) /\ IsSubstr(SubSeq(lc, a, TokenEnd(lc, a)), text)

Extracted == ~core.external /\ core.pc \in {"extracted", "insights", "done"}

\* C1: once extract_keywords has run, the result has one entry per registered
\* domain, and the entry of a domain lists, strictly ascending (so without
\* duplicates), exactly the concept names of that domain's knowledge base that
\* have a lower-case whitespace/hyphen-delimited token inside the lower-cased prompt.
C1_ExtractExact ==
  Extracted =>
    /\ Len(core.keywords) = Len(core.models)
    /\ \A i \in 1..Len(core.models) :
         LET kws == core.keywords[i][2]
             prompt_low == lower(core.prompt)
         IN /\ core.keywords[i][1] = core.models[i][1]
            /\ \A k \in 1..(Len(kws) - 1) : StrLess(kws[k], kws[k + 1])
            /\ Range(kws) = {c \in Range(keys(core.models[i][2].knowledge)) :
                               HasTokenIn(c, prompt_low)}

\* a prompt with an upper-case letter matched two concepts of one domain, which
\* the knowledge base holds in descending order
C1_Witness ==
  /\ core.pc = "extracted"
  /\ \E k \in 1..Len(core.prompt) : IsUpper(core.prompt[k])
  /\ \E i \in 1..Len(core.models) :
       LET ks == keys(core.models[i][2].knowledge)
       IN \E a, b \in 1..Len(ks) :
            /\ a < b /\ StrLess(ks[b], ks[a])
            /\ {ks[a], ks[b]} \subseteq Range(core.keywords[i][2])

\* C2: after construction exactly three experts are registered: Physics with
\* the physics knowledge base, Biomechanics with the biomechanics knowledge
\* base, and the included domain (Anatomy when the trimmed name is "anatomy"
\* in any case, else the trimmed name) with the anatomy knowledge base.
C2_ThreeExperts ==
  (core.pc \notin {"idle", "new"}) =>
    LET name == IF lower(strip(core.include_domain)) = <<"a","n","a","t","o","m","y">>
                THEN <<"A","n","a","t","o","m","y">> ELSE strip(core.include_domain)
    IN core.models =
         << <<Physics, FineTunedSLM(Physics, physics_knowledge, DefaultTemperature)>>,
            <<Biomechanics, FineTunedSLM(Biomechanics, biomech_knowledge, DefaultTemperature)>>,
            <<name, FineTunedSLM(name, anatomy_knowledge, DefaultTemperature)>> >>

\* the insights whose text has a bold span, by position in the insights dict
BoldIndexes(insights) == {i \in 1..Len(insights) : HasBold(insights[i][2])}

\* the k-th smallest element of a set of numbers
Nth(S, k) == CHOOSE i \in S : Cardinality({j \in S : j <= i}) = k

Min(a, b) == IF a < b THEN a ELSE b

\* the drivers when the insights are walked in the order `walk` of positions
DriversAlong(insights, walk) ==
  LET idx == {k \in 1..Len(walk) : walk[k] \in BoldIndexes(insights)}
  IN IF idx = {}
     THEN [k \in 1..Min(3, Len(insights)) |-> insights[k][1]]
     ELSE [k \in 1..Min(3, Cardinality(idx)) |-> FirstBold(insights[walk[Nth(idx, k)]][2])]

\* the positions of the insights dict in insertion order
InsertionWalk(insights) == [k \in 1..Len(insights) |-> k]

\* the positions of the insights dict by ascending domain name
AlphabeticalWalk(insights) ==
  [k \in 1..Len(insights) |->
     CHOOSE i \in 1..Len(insights) :
       Cardinality({j \in 1..Len(insights) :
                      j = i \/ StrLess(insights[j][1], insights[i][1])}) = k]

SynthesisWith(drivers) == synthesis_section(_propose_concept_name(drivers).val, drivers)

\* C4 (as claimed): the synthesis section of the report names the first bold
\* span of each insight taken in alphabetical order of domain name, at most 3,
\* or the domain names when no insight has a bold span.
C4_DriversAlphabetical ==
  core.pc = "done" =>
    core.sections[3] = SynthesisWith(DriversAlong(core.insights, AlphabeticalWalk(core.insights)))

\* C4 (amended): the synthesis section of the report names the first bold span
\* of each insight taken in the insertion order of the insights mapping (for the
\* insights of generate_insights: Physics, Biomechanics, the included domain),
\* at most 3, or the first 3 domain names when no insight has a bold span.
C4_DriversInsertionOrder ==
  core.pc = "done" =>
    core.sections[3] = SynthesisWith(DriversAlong(core.insights, InsertionWalk(core.insights)))

\* a report built from more than 3 insights with a bold span, one of them with
\* two spans, supplied in an order that is not alphabetical
C4_Witness ==
  /\ core.pc = "done"
  /\ Cardinality(BoldIndexes(core.insights)) > 3
  /\ \E i \in 1..Len(core.insights) : core.insights[i][2] = <<"*","*","B","e","t","a","*","*"," ","a","n","d"," ","*","*","G","a","m","m","a","*","*">>
  /\ AlphabeticalWalk(core.insights) # InsertionWalk(core.insights)

\* the fallback of C4: a report built from insights none of which has a bold span
C4_FallbackReached ==
  /\ core.pc = "done"
  /\ core.insights # <<>>
  /\ BoldIndexes(core.insights) = {}

\* C6: for the empty prompt the pipeline ends without an exception, every
\* registered domain has an empty keyword list, every insight is the
\* exploratory text about a concept of the expert's own knowledge base and its
\* study, and the report has its six sections.
C6_EmptyPrompt ==
  (~core.external /\ core.prompt = <<>>) =>
    /\ core.pc # "raised" /\ ~core.err
    /\ Extracted =>
         \A i \in 1..Len(core.models) : core.keywords[i] = <<core.models[i][1], <<>> >>
    /\ core.pc \in {"insights", "done"} =>
         /\ keys(core.insights) = keys(core.models)
         /\ \A i \in 1..Len(core.models) :
              \E k \in 1..Len(core.models[i][2].knowledge) :
                core.insights[i][2] =
                  exploratory_text(core.models[i][2].knowledge[k][1],
                                   core.models[i][2].knowledge[k][2])
    /\ core.pc = "done" => Len(core.sections) = 6 /\ \A k \in 1..6 : core.sections[k] # <<>>

\* the pipeline has run to the end on the empty prompt
C6_Witness ==
  /\ ~core.external /\ core.prompt = <<>> /\ core.pc = "done"
  /\ Len(core.sections) = 6

---------------------------------------------------------------------------
(* claims about FineTunedSLM, checked under SpecSLM *)

\* what the calls of run n returned or raised, in order
Chosen(n) == [k \in 1..Len(slm.out[n]) |-> <<slm.out[n][k].val, slm.out[n][k].err>>]

\* C5: two runs that seed with the same seed and make the same calls obtain
\* the same sequence of results, whatever state each generator started in.
C5_SameChoices == slm.pc = "ready" => Chosen(1) = Chosen(2)

\* both runs have made a call with empty candidates and a call that explores
\* (temperature >= 0.7, more than one candidate), and none raised
C5_Witness ==
  /\ slm.pc = "ready"
  /\ slm.temperature >= ExploreThreshold
  /\ \E k \in 1..Len(slm.out[1]) :
       slm.out[1][k].call = "_choose" /\ slm.out[1][k].items = <<>>
  /\ \E k \in 1..Len(slm.out[1]) :
       slm.out[1][k].call = "_choose" /\ Len(slm.out[1][k].items) > 1
  /\ \A n \in Runs : \A k \in 1..Len(slm.out[n]) : ~slm.out[n][k].err

\* C7: no call with empty candidates fails: an expert with an empty knowledge
\* base is rejected when it is constructed, so no call can meet one.
C7_SelectNeverFails ==
  \A n \in Runs : \A k \in 1..Len(slm.out[n]) :
    slm.out[n][k].items = <<>> => ~slm.out[n][k].err

\* the calls of generate_insight with candidates
InsightCalls(n) ==
  {k \in 1..Len(slm.out[n]) :
     slm.out[n][k].call = "generate_insight" /\ slm.out[n][k].items # <<>>}

Exploring(n_items) == slm.temperature >= ExploreThreshold /\ n_items > 1

\* the keyword a call selects and the generator state after selecting it
SelectedKeyword(e) ==
  IF Exploring(Len(e.items)) THEN e.items[(rng_step(e.before) % Len(e.items)) + 1]
  ELSE e.items[1]

AfterSelection(e) == IF Exploring(Len(e.items)) THEN rng_step(e.before) ELSE e.before

\* the keyword equals no knowledge key and is inside none, ignoring case
NoKeyMatches(kw) ==
  \A i \in 1..Len(slm.knowledge) : ~IsSubstr(lower(kw), lower(slm.knowledge[i][1]))

\* the call drew its concept at random from all the keys, advancing the generator
DrewAtRandom(e) ==
  LET r1 == AfterSelection(e)
      i == (rng_step(r1) % Len(slm.knowledge)) + 1
  IN /\ ~e.err
     /\ e.after = rng_step(r1)
     /\ e.val = directive_text(slm.knowledge[i][1], slm.knowledge[i][2])

\* the call took the first key and left the generator as the selection left it
TookFirstKey(e) ==
  /\ ~e.err
  /\ e.after = AfterSelection(e)
  /\ e.val = directive_text(slm.knowledge[1][1], slm.knowledge[1][2])

\* C10 (as claimed): when the selected keyword matches no knowledge key, the
\* concept is a random draw from the whole knowledge base that consumes the
\* random source, at every temperature, and the insight is the directive text.
C10_FallbackRandom ==
  \A n \in Runs : \A k \in InsightCalls(n) :
    (slm.knowledge # <<>> /\ NoKeyMatches(SelectedKeyword(slm.out[n][k])))
      => DrewAtRandom(slm.out[n][k])

\* C10 (amended): when the selected keyword matches no knowledge key, the
\* fallback is select(all keys of a non-empty base): with temperature >= 0.7 and
\* more than one key a random draw that consumes the random source, otherwise
\* the first key in insertion order with the random source untouched; the
\* insight is the directive text of that concept and its study.
C10_FallbackSelectAllKeys ==
  \A n \in Runs : \A k \in InsightCalls(n) :
    (slm.knowledge # <<>> /\ NoKeyMatches(SelectedKeyword(slm.out[n][k])))
      => IF Exploring(Len(slm.knowledge)) THEN DrewAtRandom(slm.out[n][k])
         ELSE TookFirstKey(slm.out[n][k])

\* at the default temperature a call whose keyword matches no key of a base
\* with several keys
C10_Witness ==
  /\ slm.pc = "ready"
  /\ slm.temperature = DefaultTemperature
  /\ Len(slm.knowledge) > 1
  /\ \E k \in InsightCalls(1) :
       /\ NoKeyMatches(SelectedKeyword(slm.out[1][k]))
       /\ TookFirstKey(slm.out[1][k])

\* the same at an exploring temperature, the keyword itself drawn at random
C10_ExploringReached ==
  /\ slm.pc = "ready"
  /\ Len(slm.knowledge) > 1
  /\ \E k \in InsightCalls(1) :
       /\ Exploring(Len(slm.out[1][k].items))
       /\ NoKeyMatches(SelectedKeyword(slm.out[1][k]))
       /\ DrewAtRandom(slm.out[1][k])

---------------------------------------------------------------------------
(* claims about ChatHistory, checked under SpecHistory *)

\* C8: after any sequence of add_interaction and clear the history holds at
\* most 50 records and is, in insertion order, the most recent min(k, 50) of
\* the k records added since the last clear; clear leaves it empty.
C8_HistoryIsRecentWindow ==
  hist.pc = "ready" =>
    LET k == Len(hist.added)
    IN /\ Len(hist.history) <= max_history
       /\ Len(hist.history) = Min(k, max_history)
       /\ \A i \in 1..Len(hist.history) :
            hist.history[i] = hist.added[k - Len(hist.history) + i]
       /\ hist.last = "clear" => hist.history = <<>>

\* more than 50 records were added after a clear that followed earlier records
C8_Witness ==
  /\ hist.pc = "ready"
  /\ hist.last = "add_interaction"
  /\ Len(hist.added) > max_history
  /\ hist.added[1].timestamp > 0

---------------------------------------------------------------------------
(* claims about the handlers, checked under Spec *)

IsSuffix(x, s) == Len(x) <= Len(s) /\ SubSeq(s, Len(s) - Len(x) + 1, Len(s)) = x

\* the first n of the sections, each followed by a newline
RECURSIVE Streamed(_, _)
Streamed(sections, n) ==
  IF n = 0 THEN <<>> ELSE Streamed(sections, n - 1) \o sections[n] \o NL

\* the six sections of the report on a prompt and the insights of the three
\* experts of a session, written at time now
ReportSections(prompt, insights, now) ==
  << header_section(prompt, now),
     join(NL, << <<"## [microscope] Multidisciplinary Insights","\n">> >>
              \o insight_lines(insights, <<Anatomy, Biomechanics, Physics>>)),
     SynthesisWith(DriversAlong(insights, InsertionWalk(insights))),
     architecture_section,
     validation_section,
     roadmap_section >>

\* C3: synthesize_design returns header, insights (domains ascending),
\* synthesis, architecture, validation, roadmap in this order, and whatever
\* other handlers do in between, the response of a handler that has streamed n
\* sections ends with exactly the first n of them in that order; the complete
\* report starts with the '#' header line and ends with the roadmap closing line.
C3_SectionsInOrder ==
  \A t \in 1..Len(task) :
    task[t].pc = "stream" =>
      /\ \E now \in 0..MaxTasks :
           task[t].sections = ReportSections(task[t].prompt, task[t].insights, now)
      /\ task[t].content =
           domain_analysis(task[t].keywords) \o domain_insights(task[t].insights)
             \o Streamed(task[t].sections, task[t].next - 1)
      /\ task[t].next = 7 =>
           LET report == Streamed(task[t].sections, 6)
           IN /\ SubSeq(report, 1, 2) = <<"# [palette] DVNC.ai - Innovation Report", "\n">>
              /\ IsSuffix(NL \o roadmap_closing \o NL, report)
              /\ IsSuffix(report, task[t].content)

\* a handler has streamed its whole report while another handler of the same
\* session, which started before it finished, is in the middle of its own
C3_Witness ==
  \E t, u \in 1..Len(task) :
    /\ t # u /\ task[t].sid = task[u].sid
    /\ task[t].pc = "stream" /\ task[t].next = 7
    /\ task[u].pc = "stream" /\ task[u].next \in 2..6
    /\ task[t].insights # task[u].insights

\* C9: the step of on_regenerate leaves the DVNCSystem of the session and the
\* generator as a construction with the same included domain name and the new
\* seed leaves them, whatever state the generator was in; and no step changes
\* the experts of a session that has been initialised.
C9_ReseedIsFreshConstruction ==
  [][/\ \A s \in Sessions, p \in AppPrompts :
          OnRegenerate(s, p) =>
            LET seed == 1 + (rng_step(rng) % 1000)
                name == session[s].models[3][1]
            IN \A r \in 0..(RngMod - 1) :
                 /\ session'[s].models = DVNCSystem_init(name, seed, r).models
                 /\ rng' = DVNCSystem_init(name, seed, r).rng
     /\ \A s \in Sessions :
          session[s].pc = "ready" => session'[s].models = session[s].models]_vars

\* a regenerate request has been served up to its complete report, after the
\* message it repeats was answered
C9_Witness ==
  \E t, u \in 1..Len(task) :
    /\ task[t].kind = "regenerate" /\ task[t].pc = "stream" /\ task[t].next = 7
    /\ task[t].seed \in 1..1000
    /\ task[u].kind = "main" /\ task[u].pc = "done"

---------------------------------------------------------------------------
(* session independence, checked under Spec *)

\* the handlers that belong to session s
OwnTasks(s) == {u \in 1..Len(task) : task[u].sid = s}

\* handler t has run generate_insights and still holds the result
HasInsights(t) == task[t].pc \in {"synthesize", "stream"}

\* the seed the DVNCSystem of its session had when handler t was started: the
\* one drawn by on_regenerate, or the one of on_chat_start
SeedOf(t) == IF task[t].kind = "regenerate" THEN task[t].seed ELSE 42

\* the session of handler t has done nothing since that seeding but serve t:
\* t is its only handler, or t regenerates its only other handler, which had
\* ended when t was started
OnlySinceSeeding(t) ==
  LET others == OwnTasks(task[t].sid) \ {t}
  IN IF task[t].kind = "regenerate"
     THEN \E u \in others : /\ others = {u} /\ u < t
                            /\ task[u].kind = "main" /\ task[u].pc = "done"
     ELSE others = {}

\* the insights the experts of the session of t give on the keywords of t when
\* the draws follow the seeding with no draw of anyone in between
SelectedAlone(t) ==
  generate_insights(session[task[t].sid].models, task[t].keywords,
                    random_seed(rng, SeedOf(t))).insights

\* C11: the concepts a session selects for a given seed and sequence of prompts
\* are the same whatever other sessions do in between: a handler that is the
\* first of its session to select since the seeding selects what the seed alone
\* determines.
C11_SessionsIndependent ==
  \A t \in 1..Len(task) :
    (HasInsights(t) /\ OnlySinceSeeding(t)) => task[t].insights = SelectedAlone(t)

\* the same statement for a session that runs with every other session closed:
\* the selection is reproducible when nobody else touches the generator
C11_AloneReproducible ==
  \A t \in 1..Len(task) :
    (/\ HasInsights(t) /\ OnlySinceSeeding(t)
     /\ \A s \in Sessions \ {task[t].sid} : session[s].pc = "closed")
      => task[t].insights = SelectedAlone(t)

\* both cases of the statement happen with no other session around
C11_AloneReached ==
  /\ \A s \in Sessions \ {"s1"} : session[s].pc = "closed"
  /\ \E t \in OwnTasks("s1") :
       HasInsights(t) /\ OnlySinceSeeding(t) /\ task[t].kind = "regenerate"

---------------------------------------------------------------------------
(* specifications *)

InitCore ==
  /\ clock = 0
  /\ session = [s \in Sessions |-> ClosedSession] /\ task = <<>> /\ slm = IdleSlm /\ hist = IdleHist
  /\ \/ /\ rng \in 0..(RngMod - 1)
        /\ core \in {[IdleCore EXCEPT !.pc = "new", !.include_domain = d, !.seed = s,
                                      !.prompt = p] :
                       d \in DomainNames, s \in Seeds, p \in Prompts}
     \/ /\ rng = 0
        /\ core \in {[IdleCore EXCEPT !.pc = "new", !.external = TRUE,
                                      !.include_domain = Anatomy, !.seed = 42,
                                      !.insights = g] : g \in GivenInsights}

NextCore == CoreConstruct \/ CoreExtract \/ CoreInsights \/ CoreSynthesize

SpecCore == InitCore /\ [][NextCore]_vars

InitSLM ==
  /\ rng = 0 /\ clock = 0
  /\ session = [s \in Sessions |-> ClosedSession] /\ task = <<>> /\ hist = IdleHist /\ core = IdleCore
  /\ slm \in {[pc |-> "new", knowledge |-> kb, temperature |-> t, seed |-> s,
               unseeded |-> u, expert |-> <<>>, rng |-> u, out |-> [n \in Runs |-> <<>>]] :
                kb \in KnowledgeBases, t \in Temperatures, s \in Seeds,
                u \in [Runs -> 0..(RngMod - 1)]}

NextSLM ==
  \/ SlmConstruct
  \/ \E items \in KeywordLists : SlmChoose(items)
  \/ \E kws \in KeywordLists : SlmGenerateInsight(kws)

SpecSLM == InitSLM /\ [][NextSLM]_vars

InitHistory ==
  /\ rng = 0 /\ clock = 0
  /\ session = [s \in Sessions |-> ClosedSession] /\ task = <<>> /\ core = IdleCore /\ slm = IdleSlm
  /\ hist = [pc |-> "ready", history |-> ChatHistory_init, added |-> <<>>, last |-> "__init__"]

NextHistory ==
  \/ HistAdd(<<"d","r","o","n","e">>, directive_text(<<"A","e","r","o","d","y","n","a","m","i","c","s">>, "ornithopter sketches and airflow notes"))
  \/ HistClear

SpecHistory == InitHistory /\ [][NextHistory]_vars

Init ==
  /\ rng \in 0..(RngMod - 1)
  /\ clock = 0
  /\ session = [s \in Sessions |-> ClosedSession]
  /\ task = <<>>
  /\ core = IdleCore /\ slm = IdleSlm /\ hist = IdleHist

Next ==
  \/ \E s \in Sessions : OnChatStart(s)
  \/ \E s \in Sessions : StartInitialize(s)
  \/ \E s \in Sessions, p \in AppPrompts : OnMessage(s, p)
  \/ \E s \in Sessions, p \in AppPrompts : OnRegenerate(s, p)
  \/ \E s \in Sessions : OnClearHistory(s)
  \/ \E t \in 1..Len(task) :
        \/ RegenerateMain(t)
        \/ MainExtract(t)
        \/ MainInsights(t)
        \/ MainSynthesize(t)
        \/ MainStream(t)
        \/ MainSave(t)

Spec == Init /\ [][Next]_vars

====
